---- MODULE Spec2Model ----
(***************************************************************************)
(* AugmentationSequential (kornia/augmentation/container/augment.py):      *)
(* one pipeline object, its constructor and its forward and inverse        *)
(* calls.  A call is one atomic step; its outcome is kept in `call` until  *)
(* the caller takes it (Return).                                           *)
(***************************************************************************)
EXTENDS Integers, Sequences, FiniteSets, TLC

\* ------------------------------------------------------------------ bounds
\* longest pipeline (number of augmentation modules given to __init__)
MaxLen == 2
\* longest modality-tag list and, plus one, longest argument list
MaxTags == 2

None == "None"

\* None where a list is expected (params, data_keys, self._params)
Absent == <<>>

\* ----------------------------------------------------------- modality tags
Keys == {"INPUT", "MASK", "BBOX", "BBOX_XYXY", "BBOX_XYWH", "KEYPOINTS"}

\* A tag as the caller writes it: the DataKey member, its name or its value.
Tag(f, k) == [form |-> f, key |-> k]

Enum(k) == Tag("enum", k)

INPUT == Enum("INPUT")

MASK == Enum("MASK")

\* DataKey.get: string, int or member to the member.
DataKeyGet(t) == Enum(t.key)

\* `x in DataKey`: every written form of a recognised tag is accepted.
InDataKey(t) == t.key \in Keys

\* [DataKey.get(inp) for inp in data_keys]
NormalizeKeys(tags) == [i \in DOMAIN tags |-> DataKeyGet(tags[i])]

\* ------------------------------------------------------ transform kinds
Kinds ==
  {"Intensity", "Erasing", "Geometric", "ImageSeq", "ImageSeqInt",
   "Video", "VideoInt", "Patch", "PatchInt", "OtherSeq", "Mix"}

\* isinstance(module, IntensityAugmentationBase2D); RandomErasing is one.
IsIntensityAugmentationBase2D(kind) == kind \in {"Intensity", "Erasing"}

IsRandomErasing(kind) == kind = "Erasing"

IsGeometricAugmentationBase2D(kind) == kind = "Geometric"

\* isinstance(module, ImageSequential); the video and patch containers are.
IsImageSequential(kind) ==
  kind \in {"ImageSeq", "ImageSeqInt", "Video", "VideoInt", "Patch", "PatchInt"}

IsVideoSequential(kind) == kind \in {"Video", "VideoInt"}

IsPatchSequential(kind) == kind \in {"Patch", "PatchInt"}

IsSequentialBase(kind) == IsImageSequential(kind) \/ kind = "OtherSeq"

Is_AugmentationBase(kind) == kind \in {"Intensity", "Erasing", "Geometric"}

\* module.is_intensity_only()
is_intensity_only(kind) == kind \in {"ImageSeqInt", "VideoInt", "PatchInt"}

\* ------------------------------------------------------------------ data
\* A tensor is abstracted to its content v (a point of Z_3 on which the
\* transforms act), its leading dimensions and its box encoding.

\* (batch, time, rest) of every argument of a call
InShape == <<2, 2, 3>>

Tensor(v, enc) == [v |-> v, shape |-> InShape, enc |-> enc]

\* an output slot not filled yet (outputs = [None] * len(data_keys))
NoData == [v |-> 0 - 1, shape |-> <<>>, enc |-> None]

\* the layout a caller uses for the tensor of a tag
EncOf(key) ==
  CASE key = "BBOX" -> "vertices_plus"
    [] key = "BBOX_XYXY" -> "xyxy"
    [] key = "BBOX_XYWH" -> "xywh"
    [] OTHER -> "tensor"

\* Boxes.from_tensor(arg, mode): the unified (B, N, 4, 2) representation.
BoxesFromTensor(arg, mode) ==
  [boxes |-> TRUE, mode |-> mode, data |-> [arg EXCEPT !.enc = "vertices"]]

\* Boxes.to_tensor(): flattened back to a (B, N, 4, 2) tensor.
BoxesToTensor(box) == box.data

Plain(arg) == [boxes |-> FALSE, mode |-> None, data |-> arg]

\* one element of _arguments_preproc
PreprocOne(arg, dcate) ==
  IF DataKeyGet(dcate) \in {INPUT, MASK, Enum("KEYPOINTS")} THEN Plain(arg)
  ELSE IF DataKeyGet(dcate) = Enum("BBOX") THEN BoxesFromTensor(arg, "vertices_plus")
  ELSE IF DataKeyGet(dcate) = Enum("BBOX_XYXY") THEN BoxesFromTensor(arg, "xyxy")
  ELSE BoxesFromTensor(arg, "xywh")

\* _arguments_preproc: for arg, dcate in zip(args, data_keys)
_arguments_preproc(args, keys) ==
  [i \in 1 .. (IF Len(args) < Len(keys) THEN Len(args) ELSE Len(keys)) |->
     PreprocOne(args[i], keys[i])]

\* input = arg.data for Boxes, else arg
Unwrap(a) == a.data

\* arg._data = input; arg.to_tensor() for Boxes, else input
Rewrap(a, d) == IF a.boxes THEN BoxesToTensor([a EXCEPT !.data = d]) ELSE d

\* ------------------------------------------------------------ transforms
\* param = None, for a module that is no augmentation and no container
NoParam == [name |-> 0, p |-> 0]

\* The transform of module `name` with sampled parameter p: odd modules
\* translate, even modules flip and translate (they do not commute).
Transform(name, p, x) == IF name % 2 = 1 THEN (x + p) % 3 ELSE (2 * x + p) % 3

TransformInv(name, p, x) ==
  IF name % 2 = 1 THEN (x + 3 - p) % 3 ELSE (2 * (x + 3 - p)) % 3

\* ApplyInverse.apply_by_key(input, label, module, param, dcate)
apply_by_key(d, name, param) == [d EXCEPT !.v = Transform(name, param.p, d.v)]

\* ApplyInverse.inverse_by_key(input, module, param, dcate)
inverse_by_key(d, name, param) == [d EXCEPT !.v = TransformInv(name, param.p, d.v)]

\* input.view(-1, *input.shape[2:])
ViewFold(d) ==
  [d EXCEPT !.shape = <<d.shape[1] * d.shape[2]>> \o SubSeq(d.shape, 3, Len(d.shape))]

\* input.view(batch_size, -1, *input.shape[1:])
ViewUnfold(d, batch_size) ==
  [d EXCEPT !.shape = <<batch_size, d.shape[1] \div batch_size>>
                        \o SubSeq(d.shape, 2, Len(d.shape))]

\* ---------------------------------------------------------- dispatchers
\* a video container folding every modality but the pixel one, masks too
InvClassify_FoldMask(kind, dcate) ==
  IF IsIntensityAugmentationBase2D(kind) /\ InDataKey(dcate) /\ ~IsRandomErasing(kind)
    THEN "skip"
  ELSE IF IsImageSequential(kind) /\ is_intensity_only(kind) /\ InDataKey(dcate)
    THEN "skip"
  ELSE IF IsVideoSequential(kind) /\ dcate # INPUT
    THEN "fold"
  ELSE IF IsPatchSequential(kind)
    THEN "NotSupported"
  ELSE IF (IsGeometricAugmentationBase2D(kind) \/ IsImageSequential(kind)
           \/ IsRandomErasing(kind)) /\ InDataKey(dcate)
    THEN "apply"
  ELSE IF IsSequentialBase(kind)
    THEN "ConfigurationError"
  ELSE "NotImplemented"

\* inverse, lines 217-235: the branch taken for (module, dcate)
InvClassify(kind, dcate) ==
  IF IsIntensityAugmentationBase2D(kind) /\ InDataKey(dcate) /\ ~IsRandomErasing(kind)
    THEN "skip"
  ELSE IF IsImageSequential(kind) /\ is_intensity_only(kind) /\ InDataKey(dcate)
    THEN "skip"
  ELSE IF IsVideoSequential(kind) /\ dcate \notin {INPUT, MASK}
    THEN "fold"
  ELSE IF IsPatchSequential(kind)
    THEN "NotSupported"
  ELSE IF (IsGeometricAugmentationBase2D(kind) \/ IsImageSequential(kind)
           \/ IsRandomErasing(kind)) /\ InDataKey(dcate)
    THEN "apply"
  ELSE IF IsSequentialBase(kind)
    THEN "ConfigurationError"
  ELSE "NotImplemented"

\* the container-type checks made before the intensity-only container check
FwdClassify_ContainersFirst(kind, dcate) ==
  IF dcate = INPUT
    THEN "apply_to_input"
  ELSE IF IsIntensityAugmentationBase2D(kind) /\ InDataKey(dcate) /\ ~IsRandomErasing(kind)
    THEN "skip"
  ELSE IF IsVideoSequential(kind) /\ dcate \notin {INPUT, MASK}
    THEN "fold"
  ELSE IF IsPatchSequential(kind)
    THEN "NotSupported"
  ELSE IF IsImageSequential(kind) /\ is_intensity_only(kind) /\ InDataKey(dcate)
    THEN "skip"
  ELSE IF (IsGeometricAugmentationBase2D(kind) \/ IsImageSequential(kind)
           \/ IsRandomErasing(kind)) /\ InDataKey(dcate)
    THEN "apply"
  ELSE IF IsSequentialBase(kind)
    THEN "ConfigurationError"
  ELSE "NotImplemented"

\* forward, lines 357-377: the branch taken for (module, dcate)
FwdClassify(kind, dcate) ==
  IF dcate = INPUT
    THEN "apply_to_input"
  ELSE IF IsIntensityAugmentationBase2D(kind) /\ InDataKey(dcate) /\ ~IsRandomErasing(kind)
    THEN "skip"
  ELSE IF IsImageSequential(kind) /\ is_intensity_only(kind) /\ InDataKey(dcate)
    THEN "skip"
  ELSE IF IsVideoSequential(kind) /\ dcate \notin {INPUT, MASK}
    THEN "fold"
  ELSE IF IsPatchSequential(kind)
    THEN "NotSupported"
  ELSE IF (IsGeometricAugmentationBase2D(kind) \/ IsImageSequential(kind)
           \/ IsRandomErasing(kind)) /\ InDataKey(dcate)
    THEN "apply"
  ELSE IF IsSequentialBase(kind)
    THEN "ConfigurationError"
  ELSE "NotImplemented"

IsError(branch) == branch \in {"NotSupported", "ConfigurationError", "NotImplemented"}

\* self.apply_to_input(input, label, module=module, param=param)
apply_to_input(d, name, param) == [d EXCEPT !.v = Transform(name, param.p, d.v)]

\* the body of one forward loop iteration on the data
FwdStep(branch, d, name, param) ==
  CASE branch = "apply_to_input" -> apply_to_input(d, name, param)
    [] branch = "skip" -> d
    [] branch = "fold" -> ViewUnfold(apply_by_key(ViewFold(d), name, param), d.shape[1])
    [] branch = "apply" -> apply_by_key(d, name, param)
    [] OTHER -> d

\* the body of one inverse loop iteration on the data
InvStep(branch, d, name, param) ==
  CASE branch = "skip" -> d
    [] branch = "fold" -> ViewUnfold(inverse_by_key(ViewFold(d), name, param), d.shape[1])
    [] branch = "apply" -> inverse_by_key(d, name, param)
    [] OTHER -> d

\* ----------------------------------------------------------------- state
VARIABLES
  pipeline,                   \* *args of __init__: the kind of each module, by name
  constructed,                \* "no", "yes", or "rejected" (__init__ raised)
  data_keys,                  \* self.data_keys
  _params,                    \* self._params: the retained ledger, or None
  return_label,               \* self.return_label
  contains_video_sequential,  \* self.contains_video_sequential
  call                        \* the call made and its outcome, until it is taken

vars ==
  <<pipeline, constructed, data_keys, _params, return_label,
    contains_video_sequential, call>>

\* self.get_submodule(name)
get_submodule(name) == pipeline[name]

\* self.get_forward_sequence(params): one (name, module) pair per record
get_forward_sequence(params) ==
  [j \in DOMAIN params |-> [name |-> params[j].name, module |-> get_submodule(params[j].name)]]

\* self.contains_label_operations(params)
contains_label_operations(params) ==
  \E j \in DOMAIN params : get_submodule(params[j].name) = "Mix"

Reverse(s) == [j \in DOMAIN s |-> s[Len(s) + 1 - j]]

\* index of the first occurrence: _data_keys.index(DataKey.INPUT)
IndexOf(keys, k) == CHOOSE i \in DOMAIN keys : keys[i] = k /\ \A j \in 1 .. i - 1 : keys[j] # k

Contains(keys, k) == \E i \in DOMAIN keys : keys[i] = k

\* the log entry of one dispatch step
Step(via, idx, pos, name, dcate, param, branch, pre, post) ==
  [via |-> via, idx |-> idx, pos |-> pos, name |-> name, dcate |-> dcate,
   param |-> param, branch |-> branch, pre |-> pre, post |-> post]

\* super().forward(_inp, label, params=params): the container applies every
\* record of the ledger, in ledger order, to the pixel input.
RECURSIVE SuperForward(_, _, _, _)
SuperForward(params, j, idx, acc) ==
  IF j > Len(params) THEN acc
  ELSE LET param == params[j]
           post == apply_to_input(acc.data, param.name, param)
       IN SuperForward(params, j + 1, idx,
            [acc EXCEPT !.data = post,
                        !.log = Append(@, Step("super", idx, j, param.name, INPUT, param,
                                               "apply_to_input", acc.data, post))])

\* forward, lines 355-377: for param in params, for one modality
RECURSIVE FwdWalk(_, _, _, _, _)
FwdWalk(params, j, idx, dcate, acc) ==
  IF j > Len(params) \/ acc.err # None THEN acc
  ELSE LET param == params[j]
           module == get_submodule(param.name)
           branch == FwdClassify(module, dcate)
           post == FwdStep(branch, acc.data, param.name, param)
       IN FwdWalk(params, j + 1, idx, dcate,
            [data |-> post,
             log |-> Append(acc.log, Step("loop", idx, j, param.name, dcate, param,
                                          branch, acc.data, post)),
             err |-> IF IsError(branch) THEN branch ELSE None])

\* zip_longest(a, b): the shorter side is padded with None
ZipLongest(a, b) ==
  [j \in 1 .. (IF Len(a) > Len(b) THEN Len(a) ELSE Len(b)) |->
     <<IF j <= Len(a) THEN a[j] ELSE None, IF j <= Len(b) THEN b[j] ELSE None>>]

\* neither side reversed: the loop would walk the ledger first to last
InverseSequence_NotReversed(params) == ZipLongest(get_forward_sequence(params), params)

\* only the modules reversed: each module would meet another module's record
InverseSequence_Unpaired(params) ==
  ZipLongest(Reverse(get_forward_sequence(params)), params)

\* inverse, line 212: the pairs the loop visits
InverseSequence(params) == ZipLongest(Reverse(get_forward_sequence(params)), Reverse(params))

\* inverse, lines 212-235: for one modality
RECURSIVE InvWalk(_, _, _, _, _)
InvWalk(zipped, j, idx, dcate, acc) ==
  IF j > Len(zipped) \/ acc.err # None THEN acc
  ELSE LET name == zipped[j][1].name
           module == zipped[j][1].module
           param == IF Is_AugmentationBase(module) \/ IsImageSequential(module)
                    THEN zipped[j][2] ELSE NoParam
           branch == InvClassify(module, dcate)
           post == InvStep(branch, acc.data, name, param)
       IN InvWalk(zipped, j + 1, idx, dcate,
            [data |-> post,
             log |-> Append(acc.log, Step("loop", idx, Len(zipped) + 1 - j, name, dcate,
                                          param, branch, acc.data, post)),
             err |-> IF IsError(branch) THEN branch ELSE None])

\* ------------------------------------------------------------ the calls
Bool(b) == IF b THEN "True" ELSE "False"

\* Python truth value of self.return_label (None, True or False)
Truthy(x) == x = "True"

\* the object's fields a call reads and writes
Self == [data_keys |-> data_keys, _params |-> _params, return_label |-> return_label]

\* the outcome of a call: what was passed, what it did, what it returned
Outcome(op, tags, args, label, params, keys, status, adapted, sampled, ledger, log, outs, labelOut, packed) ==
  [op |-> op, tags |-> tags, args |-> args, label |-> label, params |-> params,
   keys |-> keys, status |-> status, adapted |-> adapted, sampled |-> sampled,
   ledger |-> ledger, log |-> log, outs |-> outs, labelOut |-> labelOut,
   packed |-> packed, origin |-> <<>>, originLedger |-> Absent]

Idle ==
  Outcome("idle", Absent, <<>>, None, Absent, <<>>, "ok", FALSE, FALSE, Absent, <<>>, <<>>,
          None, "none")

\* __packup_output__(output, label), which reads self.return_label
__packup_output__(output, rl) ==
  IF Len(output) = 1 /\ Truthy(rl) THEN "tensor_label"
  ELSE IF Len(output) = 1 THEN "tensor"
  ELSE IF Truthy(rl) THEN "list_label"
  ELSE "list"

\* _validate_args_datakeys: the arity check passes
_validate_args_datakeys(args, keys) == Len(args) = Len(keys)

\* forward, lines 346-383: every modality but the one super().forward did
RECURSIVE FwdModalities(_, _, _, _, _, _)
FwdModalities(adapted, keys, params, i, done, acc) ==
  IF i > Len(adapted) \/ acc.err # None THEN acc
  ELSE IF i = done THEN FwdModalities(adapted, keys, params, i + 1, done, acc)
  ELSE LET w == FwdWalk(params, 1, i, keys[i],
                        [data |-> Unwrap(adapted[i]), log |-> acc.log, err |-> None])
       IN FwdModalities(adapted, keys, params, i + 1, done,
            [outs |-> [acc.outs EXCEPT ![i] = Rewrap(adapted[i], w.data)],
             log |-> w.log, err |-> w.err])

\* forward(*args, label, params, data_keys) on an object in state st, where
\* `drawn` is the ledger forward_parameters samples if it is called.  The
\* result is the outcome and the object's state after the call.
ForwardCall(st, args, label, params, tags, drawn) ==
  LET keys == IF tags = Absent THEN st.data_keys ELSE NormalizeKeys(tags)
      st1 == [st EXCEPT !.data_keys = keys]
      out(status, ad, sm, ledger, log, outs, lab, packed) ==
        Outcome("forward", tags, args, label, params, keys, status, ad, sm, ledger,
                log, outs, lab, packed)
  IN IF ~_validate_args_datakeys(args, keys)
       THEN [call |-> out("ArityMismatch", FALSE, FALSE, Absent, <<>>, <<>>, label, "none"),
             self |-> st1]
     ELSE IF params = Absent /\ ~Contains(keys, INPUT)
       THEN [call |-> out("MissingInput", TRUE, FALSE, Absent, <<>>, <<>>, label, "none"),
             self |-> st1]
     ELSE
       LET adapted == _arguments_preproc(args, keys)
           ledger == IF params = Absent THEN drawn ELSE params
           hasInput == Contains(keys, INPUT)
           idx == IF hasInput THEN IndexOf(keys, INPUT) ELSE 0
           blank == [i \in DOMAIN keys |-> NoData]
           pix == IF hasInput
                  THEN SuperForward(ledger, 1, idx,
                                    [data |-> Unwrap(adapted[idx]), log |-> <<>>])
                  ELSE [data |-> NoData, log |-> <<>>]
           \* super().forward keeps the ledger and decides return_label
           rlSuper == IF hasInput
                      THEN Bool(label # None \/ contains_label_operations(ledger))
                      ELSE st.return_label
           labSuper == IF hasInput /\ Truthy(rlSuper) /\ label = None
                       THEN "Lmix" ELSE label
           rl == Bool(Truthy(rlSuper) \/ labSuper # None
                      \/ contains_label_operations(ledger))
           st2 == [data_keys |-> keys,
                   _params |-> IF hasInput THEN ledger ELSE st._params,
                   return_label |-> rl]
           rest == FwdModalities(adapted, keys, ledger, 1, idx,
                     [outs |-> IF hasInput THEN [blank EXCEPT ![idx] = pix.data] ELSE blank,
                      log |-> pix.log, err |-> None])
       IN IF rest.err # None
            THEN [call |-> out(rest.err, TRUE, params = Absent, ledger, rest.log, <<>>,
                               labSuper, "none"),
                  self |-> st2]
          ELSE [call |-> out("ok", TRUE, params = Absent, ledger, rest.log, rest.outs,
                             labSuper, __packup_output__(rest.outs, rl)),
                self |-> st2]

\* inverse, lines 204-240: every modality, dispatched on data_keys as passed
RECURSIVE InvModalities(_, _, _, _, _)
InvModalities(adapted, dkeys, params, i, acc) ==
  IF i > Len(adapted) \/ acc.err # None THEN acc
  ELSE LET w == InvWalk(InverseSequence(params), 1, i, dkeys[i],
                        [data |-> Unwrap(adapted[i]), log |-> acc.log, err |-> None])
       IN InvModalities(adapted, dkeys, params, i + 1,
            [outs |-> [acc.outs EXCEPT ![i] = Rewrap(adapted[i], w.data)],
             log |-> w.log, err |-> w.err])

\* too many tensors let through
InverseArity_AtLeast(args, dkeys) == Len(args) >= Len(dkeys)

\* inverse, lines 187-191: the arity check passes
InverseArity(args, dkeys) == Len(args) = Len(dkeys)

\* the retained ledger walked even when the caller passes one
InverseLedger_Retained(st, params) == st._params

\* inverse, lines 195-201: the ledger to walk
InverseLedger(st, params) == IF params = Absent THEN st._params ELSE params

\* inverse(*args, params, data_keys) on an object in state st
InverseCall(st, args, params, tags) ==
  LET dkeys == IF tags = Absent THEN st.data_keys ELSE tags
      keys == NormalizeKeys(dkeys)
      out(status, ad, ledger, log, outs, packed) ==
        Outcome("inverse", tags, args, None, params, keys, status, ad, FALSE, ledger,
                log, outs, None, packed)
  IN IF ~InverseArity(args, dkeys)
       THEN out("ArityMismatch", FALSE, Absent, <<>>, <<>>, "none")
     ELSE IF params = Absent /\ st._params = Absent
       THEN out("MissingParameters", TRUE, Absent, <<>>, <<>>, "none")
     ELSE
       LET adapted == _arguments_preproc(args, keys)
           ledger == InverseLedger(st, params)
           rest == InvModalities(adapted, dkeys, ledger, 1,
                     [outs |-> [i \in DOMAIN dkeys |-> NoData], log |-> <<>>, err |-> None])
       IN IF rest.err # None
            THEN out(rest.err, TRUE, ledger, rest.log, <<>>, "none")
          ELSE out("ok", TRUE, ledger, rest.log, rest.outs,
                   IF Len(rest.outs) = 1 THEN "tensor" ELSE "list")

\* ------------------------------------------------------- inputs of calls
\* Pipelines: a module of any kind, alone or after MaxLen - 1 plain geometric
\* augmentations (every module is dispatched on its own, and a ledger may
\* visit the modules in either order).
Pipelines ==
  {[i \in 1 .. n |-> IF i < n THEN "Geometric" ELSE k] : n \in {1, MaxLen}, k \in Kinds}

\* Tag lists a caller passes: every single tag; lists of several tags made of
\* the pixel tag with at most one other tag, either a mask, a vertex box or
\* keypoints in the last place, or a mask in the first; and single tags
\* written as a string (the pixel tag, a mask, a corner box, keypoints) or as
\* an int (the pixel tag, a mask).
TagLists ==
  {<<Enum(k)>> : k \in Keys}
  \cup UNION {{[i \in 1 .. n |-> IF i = n THEN Enum(k) ELSE INPUT] :
                 k \in {"INPUT", "MASK", "BBOX", "KEYPOINTS"}}
              \cup {[i \in 1 .. n |-> IF i = 1 THEN MASK ELSE INPUT]} : n \in 2 .. MaxTags}
  \cup {<<Tag("str", k)>> : k \in {"INPUT", "MASK", "BBOX_XYXY", "KEYPOINTS"}}
  \cup {<<Tag("int", k)>> : k \in {"INPUT", "MASK"}}

TagArgs == {Absent} \cup TagLists

\* The i-th argument of a call is the tensor (v + i - 1) mod 3, laid out as
\* the tag at position i asks.
ArgsOf(n, v, dkeys) ==
  [i \in 1 .. n |->
     Tensor((v + i - 1) % 3, IF i <= Len(dkeys) THEN EncOf(dkeys[i].key) ELSE "tensor")]

\* Ledgers the container can sample for the pipeline, one record per module:
\* the modules in pipeline order, or in the reverse order with the other
\* sampled value for each module.
LedgerOf(q, b) == [j \in DOMAIN q |-> [name |-> q[j], p |-> ((b + q[j]) % 2) + 1]]

Ledgers ==
  LET n == Len(pipeline)
  IN {LedgerOf([j \in 1 .. n |-> j], 0), LedgerOf([j \in 1 .. n |-> n + 1 - j], 1)}

\* the ledger in pipeline order
Ledger0 == LedgerOf([j \in DOMAIN pipeline |-> j], 0)

Input(n, v, label, params, drawn) ==
  [n |-> n, v |-> v, label |-> label, params |-> params, drawn |-> drawn]

\* The forward calls made with a tag list of length len: fresh sampling on
\* two inputs, a label, every explicit ledger, and one argument too few or
\* too many.
ForwardInputs(len) ==
  {Input(len, v, None, Absent, d) : v \in {0, 1}, d \in Ledgers}
  \cup {Input(len, 0, "L", Absent, Ledger0)}
  \cup {Input(len, 0, None, d, d) : d \in Ledgers}
  \cup {Input(len, 0, "L", Ledger0, Ledger0)}
  \cup {Input(n, 0, None, Absent, Ledger0) : n \in {len - 1, len + 1}}

\* The inverse calls made with a tag list of length len.
InverseInputs(len) ==
  {Input(len, v, None, Absent, Absent) : v \in {0, 1}}
  \cup {Input(len, 0, None, d, Absent) : d \in Ledgers}
  \cup {Input(n, 0, None, Absent, Absent) : n \in {len - 1, len + 1}}

\* ---------------------------------------------------------------- actions
Init ==
  /\ pipeline \in Pipelines
  /\ constructed = "no"
  /\ data_keys = Absent
  /\ _params = Absent
  /\ return_label = None
  /\ contains_video_sequential = FALSE
  /\ call = Idle

\* a constructor that takes any first tag
InitAccepts_Any(keys) == Len(keys) >= 1

\* __init__, lines 161-162: the first tag is the pixel tag
InitAccepts(keys) == keys[1] = INPUT

\* the outcome of the constructor
InitOutcome(tags, keys, status) ==
  Outcome("init", tags, <<>>, None, Absent, keys, status, FALSE, FALSE, Absent, <<>>,
          <<>>, None, "none")

\* __init__(*args, data_keys=tags)
Construct(tags) ==
  /\ constructed = "no"
  /\ LET keys == NormalizeKeys(tags)
     IN IF ~InitAccepts(keys)
          THEN /\ constructed' = "rejected"
               /\ call' = InitOutcome(tags, keys, "NotImplementedError")
               /\ UNCHANGED <<data_keys, contains_video_sequential>>
          ELSE /\ constructed' = "yes"
               /\ call' = InitOutcome(tags, keys, "ok")
               /\ data_keys' = keys
               /\ contains_video_sequential' =
                    \E i \in DOMAIN pipeline : IsVideoSequential(pipeline[i])
  /\ UNCHANGED <<pipeline, _params, return_label>>

\* forward(*args, label=label, params=params, data_keys=tags)
Forward(args, label, params, tags, drawn) ==
  /\ constructed = "yes"
  /\ call = Idle
  /\ \E r \in {ForwardCall(Self, args, label, params, tags, drawn)} :
        /\ call' = r.call
        /\ data_keys' = r.self.data_keys
        /\ _params' = r.self._params
        /\ return_label' = r.self.return_label
  /\ UNCHANGED <<pipeline, constructed, contains_video_sequential>>

\* inverse(*args, params=params, data_keys=tags) on fresh tensors
Inverse(args, params, tags) ==
  /\ constructed = "yes"
  /\ call = Idle
  /\ call' = InverseCall(Self, args, params, tags)
  /\ UNCHANGED <<pipeline, constructed, data_keys, _params, return_label,
                 contains_video_sequential>>

\* out = forward(...); inverse(*out, params=params, data_keys=tags): the
\* outcome remembers the forward call's arguments and ledger.
InverseOfOutput(params, tags) ==
  /\ constructed = "yes"
  /\ call.op = "forward" /\ call.status = "ok"
  /\ call' = [InverseCall(Self, call.outs, params, tags)
                EXCEPT !.origin = call.args, !.originLedger = call.ledger]
  /\ UNCHANGED <<pipeline, constructed, data_keys, _params, return_label,
                 contains_video_sequential>>

\* the caller takes the outcome of the call
Return ==
  /\ call # Idle
  /\ call' = Idle
  /\ UNCHANGED <<pipeline, constructed, data_keys, _params, return_label,
                 contains_video_sequential>>

Next ==
  \/ /\ constructed = "no"
     /\ \E tags \in TagLists : Construct(tags)
  \/ /\ constructed = "yes" /\ call = Idle
     /\ \E tags \in TagArgs :
          LET dkeys == IF tags = Absent THEN data_keys ELSE tags
          IN \E in \in ForwardInputs(Len(dkeys)) :
               Forward(ArgsOf(in.n, in.v, dkeys), in.label, in.params, tags, in.drawn)
  \/ /\ constructed = "yes" /\ call = Idle
     /\ \E tags \in TagArgs :
          LET dkeys == IF tags = Absent THEN data_keys ELSE tags
          IN \E in \in InverseInputs(Len(dkeys)) :
               Inverse(ArgsOf(in.n, in.v, dkeys), in.params, tags)
  \/ /\ constructed = "yes" /\ call.op = "forward" /\ call.status = "ok"
     /\ \E params \in {Absent, call.ledger}, tags \in {Absent, call.tags} :
          InverseOfOutput(params, tags)
  \/ Return

Spec == Init /\ [][Next]_vars

\* ----------------------------------------------------------- properties
IsCall == call.op \in {"forward", "inverse"}

\* the dispatch steps of the call's loop for the modality at position idx
StepsOf(idx) == SelectSeq(call.log, LAMBDA s : s.via = "loop" /\ s.idx = idx)

PureGeometric == \A i \in DOMAIN pipeline : pipeline[i] = "Geometric"

\* C1: on a pipeline of geometric augmentations only, inverse called on the
\* outputs of a forward call with that call's ledger returns the forward
\* call's pixel input, and it does so by applying the inverse of every
\* ledger record once, from the last record to the first.
C1_RoundTrip ==
  (call.op = "inverse" /\ call.origin # <<>> /\ call.ledger = call.originLedger
   /\ PureGeometric)
  => /\ call.status = "ok"
     /\ \A i \in DOMAIN call.keys :
          call.keys[i] = INPUT
          => /\ call.outs[i] = call.origin[i]
             /\ LET st == StepsOf(i)
                    n == Len(call.ledger)
                IN /\ Len(st) = n
                   /\ \A k \in 1 .. n :
                        /\ st[k].pos = n + 1 - k
                        /\ st[k].branch = "apply"
                        /\ st[k].param = call.ledger[n + 1 - k]
                        /\ st[k].name = call.ledger[n + 1 - k].name

\* C1 witness: a two-module geometric pipeline, a forward call that changed
\* the pixel input, and the inverse call on its output that restored it.
C1_Witness ==
  /\ call.op = "inverse" /\ call.status = "ok" /\ call.origin # <<>>
  /\ call.ledger = call.originLedger
  /\ PureGeometric /\ Len(pipeline) >= 2
  /\ call.keys[1] = INPUT
  /\ call.args[1] # call.origin[1]
  /\ call.outs[1] = call.origin[1]

\* C7: a ledger record of an intensity-only augmentation that is not an
\* erasing one, or of a container that is intensity-only (a video or a
\* patch container too), is skipped for every modality but the pixel one, in
\* forward and in inverse: the data is unchanged, nothing is folded, nothing
\* is raised.
C7_IntensityLeavesUnchanged ==
  IsCall =>
    \A j \in DOMAIN call.log :
      LET s == call.log[j]
          module == get_submodule(s.name)
      IN (/\ s.via = "loop"
          /\ DataKeyGet(s.dcate) # INPUT
          /\ \/ IsIntensityAugmentationBase2D(module) /\ ~IsRandomErasing(module)
             \/ IsImageSequential(module) /\ is_intensity_only(module))
         => s.branch = "skip" /\ s.post = s.pre

\* C7 witness: inverse skipped an intensity-only patch container for a box
\* modality, and forward skipped an intensity-only video container likewise.
C7_Witness ==
  /\ IsCall /\ call.status = "ok"
  /\ \E j \in DOMAIN call.log :
       /\ call.log[j].via = "loop"
       /\ get_submodule(call.log[j].name) \in {"PatchInt", "VideoInt"}
       /\ call.log[j].dcate = Enum("BBOX_XYXY")
       /\ call.log[j].branch = "skip"
       /\ call.log[j].param.p = 1

\* C9: a call with a number of tensors other than the number of tags in
\* effect raises ArityMismatch with nothing adapted, sampled or applied;
\* with equal numbers it never raises ArityMismatch.
C9_Arity ==
  IsCall =>
    /\ Len(call.args) # Len(call.keys)
         => /\ call.status = "ArityMismatch"
            /\ ~call.adapted /\ ~call.sampled
            /\ call.log = <<>> /\ call.outs = <<>>
    /\ Len(call.args) = Len(call.keys) => call.status # "ArityMismatch"

\* C9 witness: forward called with 3 tensors and 2 tags, no ledger given.
C9_Witness ==
  /\ call.op = "forward" /\ call.status = "ArityMismatch"
  /\ Len(call.args) = 3 /\ Len(call.keys) = 2
  /\ call.params = Absent

\* C10: the loop of forward visits the ledger's records first to last, the
\* loop of inverse last to first; each step runs the module the record names
\* with that record's parameters; the sequence inverse walks is as long as
\* the ledger, and a call that returns has visited every record.
C10_LedgerOrder ==
  IsCall =>
    LET n == Len(call.ledger)
    IN /\ call.adapted /\ call.ledger # Absent => Len(InverseSequence(call.ledger)) = n
       /\ \A i \in DOMAIN call.keys :
            LET st == StepsOf(i)
            IN /\ Len(st) <= n
               /\ \A k \in 1 .. Len(st) :
                    LET pos == IF call.op = "forward" THEN k ELSE n + 1 - k
                    IN /\ st[k].pos = pos
                       /\ st[k].name = call.ledger[pos].name
                       /\ st[k].param \in {call.ledger[pos], NoParam}
                       /\ st[k].branch \in {"apply", "fold", "apply_to_input"}
                            => st[k].param = call.ledger[pos]
               /\ (call.status = "ok"
                   /\ ~(call.op = "forward" /\ Contains(call.keys, INPUT)
                        /\ i = IndexOf(call.keys, INPUT)))
                  => Len(st) = n

\* C10 witness: an inverse call that walked a two-record ledger whose order
\* is not the pipeline's, for a non-pixel modality.
C10_Witness ==
  /\ call.op = "inverse" /\ call.status = "ok"
  /\ Len(call.ledger) = 2 /\ call.ledger[1].name = 2
  /\ call.keys[1] = Enum("KEYPOINTS")
  /\ Len(StepsOf(1)) = 2
  /\ StepsOf(1)[1].name = 1 /\ StepsOf(1)[2].name = 2
  /\ StepsOf(1)[1].pre # StepsOf(1)[1].post

\* ----------------------------------------------------------------------
\* the branches of a log, in order
Branches(log) == [j \in DOMAIN log |-> log[j].branch]

\* C2: a forward call with an explicit ledger and explicit tags gives the
\* result the same call gives on an object on which nothing was called
\* before: the same outcome, the same output for every modality, the same
\* label and the same returned structure.
C2_ReplayDeterminism ==
  (call.op = "forward" /\ call.params # Absent /\ call.tags # Absent)
  => LET fresh == [data_keys |-> call.keys, _params |-> Absent, return_label |-> None]
         ref == ForwardCall(fresh, call.args, call.label, call.params, call.tags,
                            call.params).call
     IN /\ call.status = ref.status
        /\ call.outs = ref.outs
        /\ call.labelOut = ref.labelOut
        /\ call.packed = ref.packed

\* C3: a forward call that returns gives the bare tensor for one modality
\* and no label, the (tensor, label) pair for one modality and a label, the
\* list for several modalities and no label, the (list, label) pair for
\* several modalities and a label; a label is part of the result only when
\* the call has a label.
C3_PackedByLabel ==
  (call.op = "forward" /\ call.status = "ok")
  => call.packed =
       IF Len(call.keys) = 1
         THEN (IF call.labelOut # None THEN "tensor_label" ELSE "tensor")
         ELSE (IF call.labelOut # None THEN "list_label" ELSE "list")

C5_TagNormalisation ==
  /\ (call.op = "inverse" /\ call.tags # Absent)
       => LET ref == InverseCall(Self, call.args, call.params, NormalizeKeys(call.tags))
          IN /\ call.status = ref.status
             /\ call.outs = ref.outs
             /\ Branches(call.log) = Branches(ref.log)
  /\ call.op = "forward"
       => \A j \in DOMAIN call.log : call.log[j].dcate.form = "enum"

\* the classification a branch stands for: applying to the pixel modality
\* is applying
ClassOf(branch) == IF branch = "apply_to_input" THEN "apply" ELSE branch

\* the dispatcher of the direction the call does not run
OtherClassify(kind, dcate) ==
  IF call.op = "forward" THEN InvClassify(kind, dcate) ELSE FwdClassify(kind, dcate)

C8_MissingParameters ==
  (call.op = "inverse" /\ call.params = Absent /\ _params = Absent)
  => call.status = "MissingParameters" /\ call.outs = <<>>

\* C8: inverse with no ledger passed and none retained returns nothing and
\* walks nothing: it raises ArityMismatch when the number of tensors is not
\* the number of tags, MissingParameters otherwise.  In every other case
\* MissingParameters is not raised, and the ledger walked is the one passed,
\* or else the one retained; the retained ledger is that of the last forward
\* call that ran the pixel modality.
C8_MissingParametersAfterArity ==
  /\ (call.op = "inverse" /\ call.params = Absent /\ _params = Absent)
       => /\ call.outs = <<>> /\ call.log = <<>>
          /\ call.status =
               IF Len(call.args) = Len(call.keys) THEN "MissingParameters"
               ELSE "ArityMismatch"
  /\ (call.op = "inverse" /\ (call.params # Absent \/ _params # Absent))
       => /\ call.status # "MissingParameters"
          /\ call.status # "ArityMismatch"
               => call.ledger = IF call.params # Absent THEN call.params ELSE _params
  /\ (call.op = "forward" /\ call.adapted /\ call.ledger # Absent
      /\ Contains(call.keys, INPUT))
       => _params = call.ledger

\* C8 witness: inverse called first on a new object, with one tensor for one
\* tag, raised MissingParameters.
C8_Witness ==
  /\ call.op = "inverse" /\ call.status = "MissingParameters"
  /\ call.params = Absent /\ _params = Absent
  /\ Len(call.args) = 1 /\ Len(call.keys) = 1

\* the per-frame applier of the direction the call runs
Applier(d, name, param) ==
  IF call.op = "forward" THEN apply_by_key(d, name, param) ELSE inverse_by_key(d, name, param)

\* C11: for a record of a video container that is not intensity-only, a
\* modality that is neither the pixel grid nor a mask (a box of any encoding,
\* keypoints) is reshaped from (batch, time, rest) to (batch * time, rest),
\* given to the per-frame applier and reshaped back, so the output has the
\* shape of the input; the pixel grid and a mask are given to the applier
\* without the fold.  In forward and in inverse alike.
C11_VideoFold ==
  IsCall =>
    \A j \in DOMAIN call.log :
      LET s == call.log[j]
          module == get_submodule(s.name)
          modality == DataKeyGet(s.dcate)
      IN (IsVideoSequential(module) /\ ~is_intensity_only(module))
         => /\ modality \notin {INPUT, MASK}
                 => /\ s.branch = "fold"
                    /\ ViewFold(s.pre).shape
                         = <<s.pre.shape[1] * s.pre.shape[2]>>
                           \o SubSeq(s.pre.shape, 3, Len(s.pre.shape))
                    /\ s.post = ViewUnfold(Applier(ViewFold(s.pre), s.name, s.param),
                                           s.pre.shape[1])
                    /\ s.post.shape = s.pre.shape
            /\ modality \in {INPUT, MASK}
                 => /\ s.branch \in {"apply", "apply_to_input"}
                    /\ s.post = Applier(s.pre, s.name, s.param)

====
